---- MODULE Spec2Model ----
(***************************************************************************)
(* Model of the resilient external-API adapter of shipper10/flines:        *)
(*   - try_calls            (src/bot.py)   the polymorphic invoker         *)
(*   - make_genshin_client  (src/bot.py)   the credential resolver         *)
(*   - fetch_enka_data_sync (src/main.py)  the retrying fetcher            *)
(*   - extract_characters_from_response (src/main.py) the schema sniffer   *)
(*   - cmd_link, cmd_link_cookie, cmd_unlink (src/bot.py) the users store  *)
(*   - cmd_game_generic, callback_handler (src/main.py) the handlers       *)
(* Each component has its own specification (SpecInvoke, SpecResolve,      *)
(* SpecFetch, SpecSniff, SpecStore, SpecHandle); the variables of the      *)
(* other components rest.                                                  *)
(***************************************************************************)
EXTENDS Integers, Sequences, FiniteSets, TLC

VARIABLES
    \* ---- try_calls ----
    tc_obj,        \* the client: attribute name -> behaviour of that member
    tc_names,      \* the candidate names, in the caller's order
    tc_i,          \* index of the candidate the for loop is at (1-based)
    tc_pc,         \* "loop" | "retry" | "done"
    tc_last_exc,   \* last_exc
    tc_calls,      \* every invocation made so far, in call order
    tc_result,     \* how try_calls ended
    \* ---- make_genshin_client ----
    rs_creds,      \* the stored record handed in as creds
    rs_uid,        \* the uid argument
    rs_lib,        \* behaviour of the installed genshin.Client constructor
    rs_pc,         \* "start" | "construct" | "done"
    rs_cookies,    \* the cookies payload built (None until built)
    rs_ctor,       \* constructor calls made so far
    rs_result,     \* how make_genshin_client ended
    \* ---- fetch_enka_data_sync ----
    ft_game,       \* the game key
    ft_retries,    \* the retries argument
    ft_endpoint,   \* outcome of the n-th GET, for every n
    ft_pc,         \* "start" | "get" | "sleep" | "done"
    ft_attempt,    \* the loop variable attempt
    ft_gets,       \* number of requests.get calls made
    ft_sleeps,     \* the time.sleep durations so far, in tenths of a second
    ft_result,     \* how the fetch ended
    \* ---- extract_characters_from_response ----
    sn_data,       \* the payload
    sn_pc,         \* "start" | "done"
    sn_step,       \* which return statement answered (1, 2, 3; 0: the last)
    sn_out,        \* the returned list
    sn_exc,        \* the exception the call raised ("None": it returned)
    \* ---- cmd_link, cmd_link_cookie, cmd_unlink ----
    st_file,       \* users.json: user id -> stored record
    st_task,       \* per user: "idle", or the reply its handler is awaiting
    st_hist,       \* per user: the commands handled so far, in order
    st_writes,     \* number of save_users calls made
    \* ---- cmd_game_generic, callback_handler ----
    hd_update,     \* the update handled: a game command or a button callback
    hd_saved,      \* accounts.json: the uid saved for this user and game
    hd_env,        \* what fetch_enka_data returns for a supported game
    hd_pc,         \* "start" | "fetching" | "done"
    hd_call,       \* game, uid and index the handler goes on with
    hd_fetches,    \* number of fetch_enka_data calls made
    hd_replies,    \* the replies and answers sent, in order
    hd_exc         \* the exception that left the handler ("None": none)

tcVars == <<tc_obj, tc_names, tc_i, tc_pc, tc_last_exc, tc_calls, tc_result>>
rsVars == <<rs_creds, rs_uid, rs_lib, rs_pc, rs_cookies, rs_ctor, rs_result>>
ftVars == <<ft_game, ft_retries, ft_endpoint, ft_pc, ft_attempt, ft_gets,
            ft_sleeps, ft_result>>
snVars == <<sn_data, sn_pc, sn_step, sn_out, sn_exc>>
stVars == <<st_file, st_task, st_hist, st_writes>>
hdVars == <<hd_update, hd_saved, hd_env, hd_pc, hd_call, hd_fetches, hd_replies,
            hd_exc>>
vars == <<tcVars, rsVars, ftVars, snVars, stVars, hdVars>>

(***************************************************************************)
(* Bounds of the model.                                                    *)
(***************************************************************************)
MaxNames == 3
MaxRetries == 3
MaxList == 2

(***************************************************************************)
(* try_calls (src/bot.py 81-101)                                           *)
(***************************************************************************)
\* Attribute names looked up on the client (three of cmd_stats' candidates
\* would do; two keep the state space small).
ATTRS == {"get_user", "get_user_data"}

\* What awaiting a call of a member does: return, raise TypeError (the
\* argument-shape mismatch), or raise another Exception.
Outcomes == {"ok", "TypeError", "Error"}

\* A member of the client: not callable (absent, or a plain attribute), or a
\* coroutine function with an outcome when called with the supplied
\* arguments and an outcome when called with none.
NotCallable == [callable |-> FALSE, args |-> "ok", noargs |-> "ok"]
Members == {NotCallable} \cup [callable : {TRUE}, args : Outcomes, noargs : Outcomes]

NoExc == [kind |-> "None", call |-> 0]
NoFunctionFound == [kind |-> "RuntimeError", call |-> 0]
Pending == [t |-> "pending", call |-> 0, exc |-> NoExc]
Return(c) == [t |-> "return", call |-> c, exc |-> NoExc]
Raise(e) == [t |-> "raise", call |-> 0, exc |-> e]

SeqsUpTo(S, n) == UNION {[1..k -> S] : k \in 0..n}

TcInit ==
    /\ tc_obj \in [ATTRS -> Members]
    /\ tc_names \in SeqsUpTo(ATTRS, MaxNames)
    /\ tc_i = 1
    /\ tc_pc = "loop"
    /\ tc_last_exc = NoExc
    /\ tc_calls = <<>>
    /\ tc_result = Pending

TcIdle ==
    /\ tc_obj = [a \in ATTRS |-> NotCallable]
    /\ tc_names = <<>>
    /\ tc_i = 1
    /\ tc_pc = "done"
    /\ tc_last_exc = NoExc
    /\ tc_calls = <<>>
    /\ tc_result = Pending

\* fn = getattr(obj, name, None); callable(fn)
Callable(name) == tc_obj[name].callable

\* Where the loop goes after `await fn(*args, **kwargs)` ended with outcome o:
\* a return ends try_calls, a TypeError enters the no-argument fallback, any
\* other Exception continues with the next candidate.
NoRetryAfterCall(o) == IF o = "ok" THEN "done" ELSE "loop"
RetryOnAnyError(o) == IF o = "ok" THEN "done" ELSE "retry"
AbortOnError(o) ==
    IF o = "ok" THEN "done" ELSE IF o = "TypeError" THEN "retry" ELSE "done"
PcAfterCall(o) ==
    IF o = "ok" THEN "done" ELSE IF o = "TypeError" THEN "retry" ELSE "loop"

\* last_exc after the no-argument fallback raised e2 (te was recorded before).
KeepFirstExc(te, e2) == te
ExcAfterRetry(te, e2) == e2

\* The statements after the loop: `if last_exc: raise last_exc`, then the
\* RuntimeError.
ReturnNoneWhenExhausted(last) == IF last # NoExc THEN Raise(last) ELSE Return(0)
ExhaustedResult(last) == IF last # NoExc THEN Raise(last) ELSE Raise(NoFunctionFound)

\* A loop iteration whose name is no callable member: nothing is invoked.
TcSkip ==
    /\ tc_pc = "loop"
    /\ tc_i <= Len(tc_names)
    /\ ~Callable(tc_names[tc_i])
    /\ tc_i' = tc_i + 1
    /\ UNCHANGED <<tc_obj, tc_names, tc_pc, tc_last_exc, tc_calls, tc_result>>
    /\ UNCHANGED <<rsVars, ftVars, snVars, stVars, hdVars>>

\* A loop iteration on a callable member: await fn(*args, **kwargs).
TcCallWithArgs ==
    /\ tc_pc = "loop"
    /\ tc_i <= Len(tc_names)
    /\ Callable(tc_names[tc_i])
    /\ LET o == tc_obj[tc_names[tc_i]].args
           n == Len(tc_calls) + 1
       IN  /\ tc_calls' = Append(tc_calls, [i |-> tc_i, name |-> tc_names[tc_i], mode |-> "args"])
           /\ tc_pc' = PcAfterCall(o)
           /\ tc_result' = IF o = "ok" THEN Return(n) ELSE tc_result
           /\ tc_last_exc' = IF o = "ok" THEN tc_last_exc ELSE [kind |-> o, call |-> n]
           /\ tc_i' = IF PcAfterCall(o) = "loop" THEN tc_i + 1 ELSE tc_i
    /\ UNCHANGED <<tc_obj, tc_names>>
    /\ UNCHANGED <<rsVars, ftVars, snVars, stVars, hdVars>>

\* The fallback inside `except TypeError`: await fn().
TcRetryNoArgs ==
    /\ tc_pc = "retry"
    /\ LET o == tc_obj[tc_names[tc_i]].noargs
           n == Len(tc_calls) + 1
       IN  /\ tc_calls' = Append(tc_calls, [i |-> tc_i, name |-> tc_names[tc_i], mode |-> "noargs"])
           /\ tc_pc' = IF o = "ok" THEN "done" ELSE "loop"
           /\ tc_result' = IF o = "ok" THEN Return(n) ELSE tc_result
           /\ tc_last_exc' = IF o = "ok" THEN tc_last_exc
                             ELSE ExcAfterRetry(tc_last_exc, [kind |-> o, call |-> n])
           /\ tc_i' = IF o = "ok" THEN tc_i ELSE tc_i + 1
    /\ UNCHANGED <<tc_obj, tc_names>>
    /\ UNCHANGED <<rsVars, ftVars, snVars, stVars, hdVars>>

\* The loop is exhausted: raise last_exc, or the RuntimeError.
TcFinish ==
    /\ tc_pc = "loop"
    /\ tc_i > Len(tc_names)
    /\ tc_pc' = "done"
    /\ tc_result' = ExhaustedResult(tc_last_exc)
    /\ UNCHANGED <<tc_obj, tc_names, tc_i, tc_last_exc, tc_calls>>
    /\ UNCHANGED <<rsVars, ftVars, snVars, stVars, hdVars>>

(***************************************************************************)
(* make_genshin_client (src/bot.py 52-77)                                  *)
(***************************************************************************)
\* What dict.get gives for a key the record lacks.
None == "<None>"

\* Python truthiness of a stored field: None and the empty string are falsy.
Truthy(v) == v # None /\ v # ""

\* Stored records: every field absent, empty, or set. uid is absent, empty,
\* numeric, or text int() rejects.
Records ==
    [ltuid : {None, "", "119480035"}, ltoken : {None, "", "ltok"},
     cookie_token : {None, "", "ctok"}, uid : {None, "", "700000001", "abc"}]

\* int(uid) succeeds on decimal text only.
IsDigits(u) == u = "700000001"

\* The installed genshin.Client constructor: the outcome of each call form
\* the function tries.
CtorForms == {"pos_uid", "kw_uid", "pos"}
Libs == [CtorForms -> Outcomes]

\* cookies = None, and the payload as a set of <<key, value>> items.
NoCookies == {}

\* Lines 57-63: the payload, or None where the function raises ValueError.
BuildCookiesEitherHalf(creds) ==
    IF Truthy(creds.ltuid) \/ Truthy(creds.ltoken)
    THEN {<<"ltuid", creds.ltuid>>, <<"ltoken", creds.ltoken>>}
    ELSE IF Truthy(creds.cookie_token)
    THEN {<<"cookie_token", creds.cookie_token>>}
    ELSE NoCookies
BuildCookies(creds) ==
    IF Truthy(creds.ltuid) /\ Truthy(creds.ltoken)
    THEN {<<"ltuid", creds.ltuid>>, <<"ltoken", creds.ltoken>>}
    ELSE IF Truthy(creds.cookie_token)
    THEN {<<"cookie_token", creds.cookie_token>>}
    ELSE NoCookies

RsPending == [t |-> "pending", via |-> "", exc |-> "None"]
RsClient(form) == [t |-> "client", via |-> form, exc |-> "None"]
RsRaise(e) == [t |-> "raise", via |-> "", exc |-> e]

\* Lines 66-77: the constructor patterns. Gives the constructor calls made,
\* in order, and how the function ends.
Construct(uid, lib) ==
    IF Truthy(uid)
    THEN IF ~IsDigits(uid)
         THEN [ctor |-> <<>>, result |-> RsRaise("ValueError")]   \* int(uid)
         ELSE CASE lib["pos_uid"] = "ok" ->
                     [ctor |-> <<"pos_uid">>, result |-> RsClient("pos_uid")]
                [] lib["pos_uid"] = "Error" ->
                     [ctor |-> <<"pos_uid">>, result |-> RsRaise("Error")]
                [] OTHER ->
                     IF lib["kw_uid"] = "ok"
                     THEN [ctor |-> <<"pos_uid", "kw_uid">>, result |-> RsClient("kw_uid")]
                     ELSE [ctor |-> <<"pos_uid", "kw_uid", "pos">>,
                           result |-> IF lib["pos"] = "ok" THEN RsClient("pos")
                                      ELSE RsRaise(lib["pos"])]
    ELSE CASE lib["pos"] = "ok" -> [ctor |-> <<"pos">>, result |-> RsClient("pos")]
           [] lib["pos"] = "Error" -> [ctor |-> <<"pos">>, result |-> RsRaise("Error")]
           [] OTHER -> [ctor |-> <<"pos", "pos">>, result |-> RsRaise("TypeError")]

RsInit ==
    /\ rs_creds \in Records
    /\ rs_uid = rs_creds.uid          \* every caller passes uid=u.get("uid")
    /\ rs_lib \in Libs
    /\ rs_pc = "start"
    /\ rs_cookies = NoCookies
    /\ rs_ctor = <<>>
    /\ rs_result = RsPending

RsIdle ==
    /\ rs_creds = [ltuid |-> None, ltoken |-> None, cookie_token |-> None, uid |-> None]
    /\ rs_uid = None
    /\ rs_lib = [f \in CtorForms |-> "ok"]
    /\ rs_pc = "done"
    /\ rs_cookies = NoCookies
    /\ rs_ctor = <<>>
    /\ rs_result = RsPending

\* Lines 57-63.
RsBuildCookies ==
    /\ rs_pc = "start"
    /\ rs_cookies' = BuildCookies(rs_creds)
    /\ IF rs_cookies' = NoCookies
       THEN /\ rs_pc' = "done"
            /\ rs_result' = RsRaise("NoCredentials")
       ELSE /\ rs_pc' = "construct"
            /\ rs_result' = rs_result
    /\ UNCHANGED <<rs_creds, rs_uid, rs_lib, rs_ctor>>
    /\ UNCHANGED <<tcVars, ftVars, snVars, stVars, hdVars>>

\* Lines 66-77.
RsConstruct ==
    /\ rs_pc = "construct"
    /\ rs_pc' = "done"
    /\ rs_ctor' = Construct(rs_uid, rs_lib).ctor
    /\ rs_result' = Construct(rs_uid, rs_lib).result
    /\ UNCHANGED <<rs_creds, rs_uid, rs_lib, rs_cookies>>
    /\ UNCHANGED <<tcVars, ftVars, snVars, stVars, hdVars>>

(***************************************************************************)
(* build_enka_url, fetch_enka_data_sync (src/main.py 50-79)                *)
(***************************************************************************)
GAME_ENDPOINTS == {"gen", "hsr", "zzz"}

\* Game keys a caller can pass: the table's, and one it lacks.
Games == GAME_ENDPOINTS \cup {"pgr"}

\* backoff = 1.5 seconds, in tenths of a second.
BackoffTenths == 15

\* What one requests.get(...) followed by resp.json() does:
\*   "ok"      status 200 and a JSON body
\*   "status"  a status code other than 200
\*   "exc"     requests.get raises a RequestException (transport error)
\*   "badjson" status 200, body not JSON: resp.json() raises
\*             requests.exceptions.JSONDecodeError, a RequestException
\*             (requests >= 2.27)
GetOutcomes == {"ok", "status", "exc", "badjson"}

FtPending == [t |-> "pending", attempt |-> 0]
FtPayload(n) == [t |-> "payload", attempt |-> n]
FtNone == [t |-> "None", attempt |-> 0]
FtRaise == [t |-> "raise", attempt |-> 0]

\* Lines 59-60: the table check of build_enka_url.
Supported(game) == game \in GAME_ENDPOINTS

\* The except clause, lines 74-79: sleep and continue below the ceiling,
\* return None at it.
ReraiseAtCeiling(attempt, retries) ==
    IF attempt < retries THEN [pc |-> "sleep", result |-> FtPending]
    ELSE [pc |-> "done", result |-> FtRaise]
OnRequestException(attempt, retries) ==
    IF attempt < retries THEN [pc |-> "sleep", result |-> FtPending]
    ELSE [pc |-> "done", result |-> FtNone]

\* The try body and its handler, lines 68-79, for the GET's outcome o.
AfterGet(o, attempt, retries) ==
    CASE o = "ok" -> [pc |-> "done", result |-> FtPayload(attempt)]
      [] o = "status" -> [pc |-> "done", result |-> FtNone]
      [] OTHER -> OnRequestException(attempt, retries)

FtInit ==
    /\ ft_game \in Games
    /\ ft_retries \in 0..MaxRetries
    /\ ft_endpoint \in [1..MaxRetries -> GetOutcomes]
    /\ ft_pc = "start"
    /\ ft_attempt = 0
    /\ ft_gets = 0
    /\ ft_sleeps = <<>>
    /\ ft_result = FtPending

FtIdle ==
    /\ ft_game = "gen"
    /\ ft_retries = 0
    /\ ft_endpoint = [n \in 1..MaxRetries |-> "ok"]
    /\ ft_pc = "done"
    /\ ft_attempt = 0
    /\ ft_gets = 0
    /\ ft_sleeps = <<>>
    /\ ft_result = FtPending

\* url = build_enka_url(game, uid): raises ValueError for a key the table
\* lacks; otherwise the loop starts at attempt 1.
FtBuildUrl ==
    /\ ft_pc = "start"
    /\ IF Supported(ft_game)
       THEN /\ ft_pc' = "get"
            /\ ft_attempt' = 1
            /\ ft_result' = ft_result
       ELSE /\ ft_pc' = "done"
            /\ ft_attempt' = ft_attempt
            /\ ft_result' = FtRaise
    /\ UNCHANGED <<ft_game, ft_retries, ft_endpoint, ft_gets, ft_sleeps>>
    /\ UNCHANGED <<tcVars, rsVars, snVars, stVars, hdVars>>

\* One loop iteration up to its return, or to the sleep.
FtGet ==
    /\ ft_pc = "get"
    /\ ft_attempt <= ft_retries
    /\ ft_gets' = ft_gets + 1
    /\ LET a == AfterGet(ft_endpoint[ft_attempt], ft_attempt, ft_retries)
       IN  /\ ft_pc' = a.pc
           /\ ft_result' = a.result
    /\ UNCHANGED <<ft_game, ft_retries, ft_endpoint, ft_attempt, ft_sleeps>>
    /\ UNCHANGED <<tcVars, rsVars, snVars, stVars, hdVars>>

\* backoff * attempt (line 77), in tenths of a second.
ConstantBackoff(attempt) == BackoffTenths
SleepFor(attempt) == BackoffTenths * attempt

\* time.sleep(backoff * attempt); continue
FtSleep ==
    /\ ft_pc = "sleep"
    /\ ft_sleeps' = Append(ft_sleeps, SleepFor(ft_attempt))
    /\ ft_attempt' = ft_attempt + 1
    /\ ft_pc' = "get"
    /\ UNCHANGED <<ft_game, ft_retries, ft_endpoint, ft_gets, ft_result>>
    /\ UNCHANGED <<tcVars, rsVars, snVars, stVars, hdVars>>

\* range(1, retries + 1) is empty or used up: the function falls off its
\* end and returns None.
FtFallThrough ==
    /\ ft_pc = "get"
    /\ ft_attempt > ft_retries
    /\ ft_pc' = "done"
    /\ ft_result' = FtNone
    /\ UNCHANGED <<ft_game, ft_retries, ft_endpoint, ft_attempt, ft_gets, ft_sleeps>>
    /\ UNCHANGED <<tcVars, rsVars, snVars, stVars, hdVars>>

(***************************************************************************)
(* extract_characters_from_response (src/main.py 85-139)                   *)
(*                                                                         *)
(* A parsed JSON value is a tagged record.  A dict keeps its items as a    *)
(* sequence of <<key, value>> in insertion order, the order d.values()     *)
(* walks.                                                                  *)
(***************************************************************************)
JNull == [t |-> "null"]
JStr(s) == [t |-> "str", s |-> s]
JNum(n) == [t |-> "num", n |-> n]
JList(els) == [t |-> "list", els |-> els]
JDict(kv) == [t |-> "dict", kv |-> kv]

IsDict(v) == v.t = "dict"
IsList(v) == v.t = "list"

\* k in d
HasKey(d, k) == \E i \in 1..Len(d.kv) : d.kv[i][1] = k

\* d.get(k): the value, or None (the same Python object JSON null parses to)
Get(d, k) ==
    IF HasKey(d, k)
    THEN d.kv[CHOOSE i \in 1..Len(d.kv) : d.kv[i][1] = k][2]
    ELSE JNull

\* bool(v)
JTruthy(v) ==
    CASE v.t = "null" -> FALSE
      [] v.t = "str" -> v.s # ""
      [] v.t = "num" -> v.n # 0
      [] v.t = "list" -> v.els # <<>>
      [] v.t = "dict" -> v.kv # <<>>

\* str(v) for the values the name fields of the payloads below hold: a string
\* is itself, an int its decimal digits.
PyStr(v) ==
    CASE v.t = "str" -> v.s
      [] v.t = "num" -> ToString(v.n)
      [] v.t = "null" -> "None"

\* item.get(k1) or item.get(k2) or ... or "Unknown"
RECURSIVE FirstTruthy(_, _)
FirstTruthy(item, keys) ==
    IF keys = <<>> THEN JStr("Unknown")
    ELSE IF JTruthy(Get(item, Head(keys))) THEN Get(item, Head(keys))
    ELSE FirstTruthy(item, Tail(keys))

\* The `or` chains of the three steps (lines 95, 108, 134).
NameKeys1 == <<"name", "avatarName", "icon", "id">>
NameKeys2 == <<"name", "avatarName", "character", "icon">>
NameKeys3WithId == <<"name", "avatarName", "icon", "id">>
NameKeys3 == <<"name", "avatarName", "icon">>

\* The marker keys of search_for_list (line 119).
MarkerKeys == {"name", "avatarName", "icon", "id", "avatarId", "character"}

\* The generic top-level keys, in the order line 101 tries them.
GenericKeys == <<"avatars", "characters", "data", "playerInfo", "player">>

\* The loop bodies of lines 92-96, 105-109: the dict elements, normalized.
RECURSIVE NormalizeReversed(_, _)
NormalizeReversed(els, keys) ==
    IF els = <<>> THEN <<>>
    ELSE IF IsDict(Head(els))
    THEN NormalizeReversed(Tail(els), keys)
         \o <<[name |-> PyStr(FirstTruthy(Head(els), keys)), raw |-> Head(els)]>>
    ELSE NormalizeReversed(Tail(els), keys)
RECURSIVE Normalize(_, _)
Normalize(els, keys) ==
    IF els = <<>> THEN <<>>
    ELSE IF IsDict(Head(els))
    THEN <<[name |-> PyStr(FirstTruthy(Head(els), keys)), raw |-> Head(els)]>>
         \o Normalize(Tail(els), keys)
    ELSE Normalize(Tail(els), keys)

\* any(k in el for k in (...))
HasMarker(el) == \E k \in MarkerKeys : HasKey(el, k)

\* Lines 116-120: the dict elements that carry a marker key.
WholeList(els) ==
    IF \E i \in 1..Len(els) : IsDict(els[i]) /\ HasMarker(els[i]) THEN els ELSE <<>>
Candidates(els) == SelectSeq(els, LAMBDA el : IsDict(el) /\ HasMarker(el))

\* A search that also descends into the elements of a list.
RECURSIVE SearchThroughLists(_)
SearchThroughLists(d) ==
    LET vals == IF IsList(d) THEN d.els
                ELSE IF IsDict(d) THEN [i \in 1..Len(d.kv) |-> d.kv[i][2]]
                ELSE <<>>
        hits == {i \in 1..Len(vals) : SearchThroughLists(vals[i]) # <<>>}
    IN  IF IsList(d) /\ Candidates(d.els) # <<>> THEN Candidates(d.els)
        ELSE IF hits = {} THEN <<>>
        ELSE SearchThroughLists(vals[CHOOSE i \in hits : \A j \in hits : i <= j])

\* search_for_list (lines 114-128); None is the empty sequence (its callers
\* test only its truth).
RECURSIVE search_for_list(_)
RECURSIVE SearchValues(_, _)
search_for_list(d) ==
    IF IsList(d) THEN Candidates(d.els)
    ELSE IF IsDict(d) THEN SearchValues(d.kv, 1)
    ELSE <<>>
SearchValues(kv, i) ==
    IF i > Len(kv) THEN <<>>
    ELSE LET res == search_for_list(kv[i][2])
         IN  IF res # <<>> THEN res ELSE SearchValues(kv, i + 1)

\* Step 1 (lines 90-98): the list to return, empty when the step falls through.
Step1(data) ==
    IF HasKey(data, "avatarInfoList") /\ IsList(Get(data, "avatarInfoList"))
    THEN Normalize(Get(data, "avatarInfoList").els, NameKeys1)
    ELSE <<>>

\* Step 2 (lines 101-111), from the i-th generic key on.
RECURSIVE Step2From(_, _)
Step2From(data, i) ==
    IF i > Len(GenericKeys) THEN <<>>
    ELSE LET maybe == Get(data, GenericKeys[i])
             out == IF IsList(maybe) /\ JTruthy(maybe)
                    THEN Normalize(maybe.els, NameKeys2) ELSE <<>>
         IN  IF out # <<>> THEN out ELSE Step2From(data, i + 1)

\* Lines 132-135: the loop over found tests no isinstance: item.get raises
\* AttributeError on an element that is no dict.
GetRaises(found) == \E i \in 1..Len(found) : ~IsDict(found[i])
NormalizeFound(found, keys) ==
    [i \in 1..Len(found) |-> [name |-> PyStr(FirstTruthy(found[i], keys)), raw |-> found[i]]]

\* Step 3 (lines 130-137), for a found list of dicts.
Step3(data) == NormalizeFound(search_for_list(data), NameKeys3)

\* How the call ends after steps 1 and 2 fell through (lines 130-139).
AfterStep2(data) ==
    IF search_for_list(data) = <<>> THEN [step |-> 0, out |-> <<>>, exc |-> "None"]
    ELSE IF GetRaises(search_for_list(data))
    THEN [step |-> 3, out |-> <<>>, exc |-> "AttributeError"]
    ELSE [step |-> 3, out |-> Step3(data), exc |-> "None"]

\* The function: which return answered, the list returned, the exception.
Step2First(data) ==
    IF ~IsDict(data) THEN [step |-> 0, out |-> <<>>, exc |-> "None"]
    ELSE IF Step2From(data, 1) # <<>>
    THEN [step |-> 2, out |-> Step2From(data, 1), exc |-> "None"]
    ELSE IF Step1(data) # <<>> THEN [step |-> 1, out |-> Step1(data), exc |-> "None"]
    ELSE AfterStep2(data)
extract_characters_from_response(data) ==
    IF ~IsDict(data) THEN [step |-> 0, out |-> <<>>, exc |-> "None"]
    ELSE IF Step1(data) # <<>> THEN [step |-> 1, out |-> Step1(data), exc |-> "None"]
    ELSE IF Step2From(data, 1) # <<>>
    THEN [step |-> 2, out |-> Step2From(data, 1), exc |-> "None"]
    ELSE AfterStep2(data)

(***************************************************************************)
(* The payloads the sniffer is run on.                                     *)
(***************************************************************************)
Bennett == JDict(<< <<"name", JStr("Bennett")>>, <<"level", JNum(80)>> >>)
Raiden == JDict(<< <<"avatarName", JStr("Raiden")>> >>)
IdOnly == JDict(<< <<"id", JNum(10000002)>> >>)
NoMarker == JDict(<< <<"level", JNum(90)>> >>)
Kaeya == JDict(<< <<"name", JStr("")>>, <<"character", JStr("Kaeya")>>,
                  <<"icon", JStr("UI_Kaeya")>> >>)
Equipped == JDict(<< <<"equip", JList(<< JDict(<< <<"name", JStr("Sword")>> >>) >>)>> >>)

\* List elements: character-like mappings, a mapping without marker key, a
\* mapping holding a list of its own, and a scalar.
Elems == {Raiden, IdOnly, NoMarker, Kaeya, Equipped, JNum(7)}

Lists == {JList(els) : els \in SeqsUpTo(Elems, MaxList)}

\* Values of a top-level key: a list, a mapping holding a list, a scalar.
Values == Lists \cup {JDict(<< <<"showcase", l>> >>) : l \in Lists} \cup {JStr("x"), JNull}

\* The values of the other key of a two-key payload.
FewValues ==
    {JList(<<Bennett>>), JList(<<JNum(7)>>),
     JDict(<< <<"showcase", JList(<<IdOnly>>)>> >>)}

TopKeys == {"avatarInfoList", "avatars", "characters", "player", "showcase"}
PairKeys == {"avatarInfoList", "avatars", "characters", "showcase"}
KeyPairs == {p \in PairKeys \X PairKeys : p[1] # p[2]}

Payloads ==
    {JDict(<<>>), JNull, JStr("x"), JList(<<Bennett>>)}
    \cup {JDict(<< <<k, v>> >>) : k \in TopKeys, v \in Values}
    \cup {JDict(<< <<k[1], v>>, <<k[2], w>> >>) : k \in KeyPairs, v \in Values, w \in FewValues}
    \cup {JDict(<< <<k[1], w>>, <<k[2], v>> >>) : k \in KeyPairs, v \in Values, w \in FewValues}

SnInit ==
    /\ sn_data \in Payloads
    /\ sn_pc = "start"
    /\ sn_step = 0
    /\ sn_out = <<>>
    /\ sn_exc = "None"

SnIdle ==
    /\ sn_data = JNull
    /\ sn_pc = "done"
    /\ sn_step = 0
    /\ sn_out = <<>>
    /\ sn_exc = "None"

\* chars = extract_characters_from_response(data)
SnExtract ==
    /\ sn_pc = "start"
    /\ sn_pc' = "done"
    /\ sn_step' = extract_characters_from_response(sn_data).step
    /\ sn_out' = extract_characters_from_response(sn_data).out
    /\ sn_exc' = extract_characters_from_response(sn_data).exc
    /\ UNCHANGED <<sn_data>>
    /\ UNCHANGED <<tcVars, rsVars, ftVars, stVars, hdVars>>

(***************************************************************************)
(* cmd_link, cmd_link_cookie, cmd_unlink (src/bot.py 126-163) over         *)
(* users.json (load_users, save_users, 38-48).  Each handler is a          *)
(* coroutine: it runs without interruption up to its `await reply_text`,   *)
(* where the handlers of other updates may run.                            *)
(***************************************************************************)
MaxCmds == 3

Users == {"u1", "u2"}

\* context.args of the commands handled.
Args == {<<"a">>, <<"b">>, <<"a", "b">>, <<"b", "a">>}

\* {} (also what the file holds after lines 32-34 created it).
EmptyDict == <<>>

\* load_users (lines 38-43): the map the file holds.  The except branch is
\* LoadFailed; the file is written by save_users alone, so json.load of it
\* does not raise.
LoadFailed(file) == EmptyDict
load_users(file) == file

\* save_users (lines 46-48): the file holds the whole map handed in.
save_users(users) == users

\* users.setdefault(k, {})
SetDefault(users, k) == IF k \in DOMAIN users THEN users ELSE (k :> EmptyDict) @@ users

\* users[k][f] = v
ReplaceRecord(users, k, f, v) == [users EXCEPT ![k] = (f :> v)]
SetItem(users, k, f, v) == [users EXCEPT ![k] = (f :> v) @@ @]

\* users.pop(k, None)
ClearRecord(users, k) == [users EXCEPT ![k] = EmptyDict]
Pop(users, k) == [x \in (DOMAIN users) \ {k} |-> users[x]]

\* Lines 132-137: the map cmd_link saves.
Linked(users, u, args) ==
    SetItem(SetItem(SetDefault(users, u), u, "ltuid", args[1]), u, "ltoken", args[2])

\* Lines 147-151: the map cmd_link_cookie saves.
CookieLinked(users, u, args) ==
    SetItem(SetDefault(users, u), u, "cookie_token", args[1])

Handled(u, cmd, args) == [st_hist EXCEPT ![u] = Append(@, [cmd |-> cmd, args |-> args])]

HandledSoFar == Len(st_hist["u1"]) + Len(st_hist["u2"])

StInit ==
    /\ st_file = EmptyDict
    /\ st_task = [u \in Users |-> "idle"]
    /\ st_hist = [u \in Users |-> <<>>]
    /\ st_writes = 0

StIdle ==
    /\ st_file = EmptyDict
    /\ st_task = [u \in Users |-> "idle"]
    /\ st_hist = [u \in Users |-> <<>>]
    /\ st_writes = 0

\* cmd_link up to its await (lines 127-138).
StLink ==
    \E u \in Users, args \in Args :
        /\ st_task[u] = "idle"
        /\ HandledSoFar < MaxCmds
        /\ st_hist' = Handled(u, "link", args)
        /\ IF Len(args) # 2
           THEN /\ st_task' = [st_task EXCEPT ![u] = "usage"]
                /\ UNCHANGED <<st_file, st_writes>>
           ELSE /\ st_file' = save_users(Linked(load_users(st_file), u, args))
                /\ st_writes' = st_writes + 1
                /\ st_task' = [st_task EXCEPT ![u] = "saved"]
        /\ UNCHANGED <<tcVars, rsVars, ftVars, snVars, hdVars>>

\* cmd_link_cookie up to its await (lines 142-152).
StLinkCookie ==
    \E u \in Users, args \in Args :
        /\ st_task[u] = "idle"
        /\ HandledSoFar < MaxCmds
        /\ st_hist' = Handled(u, "link_cookie", args)
        /\ IF Len(args) # 1
           THEN /\ st_task' = [st_task EXCEPT ![u] = "usage"]
                /\ UNCHANGED <<st_file, st_writes>>
           ELSE /\ st_file' = save_users(CookieLinked(load_users(st_file), u, args))
                /\ st_writes' = st_writes + 1
                /\ st_task' = [st_task EXCEPT ![u] = "saved"]
        /\ UNCHANGED <<tcVars, rsVars, ftVars, snVars, hdVars>>

\* cmd_unlink up to its await (lines 156-163).
StUnlink ==
    \E u \in Users :
        /\ st_task[u] = "idle"
        /\ HandledSoFar < MaxCmds
        /\ st_hist' = Handled(u, "unlink", <<>>)
        /\ IF u \in DOMAIN load_users(st_file)
           THEN /\ st_file' = save_users(Pop(load_users(st_file), u))
                /\ st_writes' = st_writes + 1
                /\ st_task' = [st_task EXCEPT ![u] = "unlinked"]
           ELSE /\ st_task' = [st_task EXCEPT ![u] = "not linked"]
                /\ UNCHANGED <<st_file, st_writes>>
        /\ UNCHANGED <<tcVars, rsVars, ftVars, snVars, hdVars>>

\* `await update.message.reply_text(...)` completes: the handler is over.
StReply ==
    \E u \in Users :
        /\ st_task[u] # "idle"
        /\ st_task' = [st_task EXCEPT ![u] = "idle"]
        /\ UNCHANGED <<st_file, st_hist, st_writes>>
        /\ UNCHANGED <<tcVars, rsVars, ftVars, snVars, hdVars>>

(***************************************************************************)
(* cmd_game_generic (src/main.py 179-239) and callback_handler (286-311).  *)
(* A handler runs up to `await fetch_enka_data(...)` and goes on when the  *)
(* fetch has ended.                                                        *)
(***************************************************************************)
\* The games the command is registered for (lines 319-321).
CmdGames == GAME_ENDPOINTS

\* context.args: nothing, a uid, a name query, other text (one word).
CmdArgs == {<<>>, <<"700000001">>, <<"RAIDEN">>, <<"bennett">>, <<"zzz">>}

\* str.isdigit and str.lower on the texts above and the display names.
isdigit(s) == s = "700000001"
lower(s) ==
    CASE s = "RAIDEN" -> "raiden"
      [] s = "Raiden" -> "raiden"
      [] s = "Bennett" -> "bennett"
      [] s = "Unknown" -> "unknown"
      [] OTHER -> s

\* query.data, as its pieces between the "|": absent or empty (NoData),
\* foreign, a button of the keyboard, an index past the list, a negative
\* one, no number, a piece short, a game key outside the table.
NoData == <<>>
CbData == {NoData, <<"other", "x">>,
           <<"enk", "gen", "700000001", "0">>, <<"enk", "hsr", "700000001", "1">>,
           <<"enk", "gen", "700000001", "5">>, <<"enk", "gen", "700000001", "-1">>,
           <<"enk", "gen", "700000001", "x">>, <<"enk", "gen", "700000001">>,
           <<"enk", "pgr", "700000001", "0">>}

\* data.startswith("enk|")
StartsWithEnk(parts) == Len(parts) >= 2 /\ parts[1] = "enk"

\* int(idx_str): the texts it accepts, and their values.
IntTexts == {"0", "1", "5", "-1"}
ParseInt(s) == CASE s = "0" -> 0 [] s = "1" -> 1 [] s = "5" -> 5 [] s = "-1" -> 0 - 1

\* Lines 295-297: the split into four pieces and int() both succeed.
Parses(parts) == Len(parts) = 4 /\ parts[4] \in IntTexts

\* What the API answers with: None (the fetch failed, or the body was JSON
\* null), empty bodies, a body without characters, bodies with characters.
TwoChars == JDict(<< <<"avatarInfoList", JList(<<Bennett, Raiden>>)>> >>)
HdPayloads == {JNull, JDict(<<>>), JList(<<>>), NoMarker, TwoChars,
               JDict(<< <<"player", JDict(<< <<"showcase", JList(<<IdOnly>>)>> >>)>> >>)}

HdUpdates ==
    {[kind |-> "cmd", game |-> g, args |-> a, data |-> NoData] : g \in CmdGames, a \in CmdArgs}
    \cup {[kind |-> "cb", game |-> "", args |-> <<>>, data |-> d] : d \in CbData}

NoCall == [game |-> "", uid |-> "", idx |-> 0]
HdReply(kind, arg) == [kind |-> kind, arg |-> arg]

\* The listing of an earlier fetch in place of a new one.
EarlierListing(game, env) == [exc |-> "None", data |-> TwoChars]

\* fetch_enka_data (lines 81-83): build_enka_url raises for a game outside
\* the table, else the API's answer.
FetchResult(game, env) ==
    IF Supported(game) THEN [exc |-> "None", data |-> env]
    ELSE [exc |-> "ValueError", data |-> JNull]

\* Lines 232-239: one button per character, its position in the list as
\* index.
Keyboard(game, uid, chars) ==
    HdReply("keyboard", [i \in 1..Len(chars) |->
        [text |-> chars[i].name, cb |-> <<"enk", game, uid, ToString(i - 1)>>]])

\* show_character_details (lines 241-284): the name it shows.
Details(ch) ==
    HdReply("details", IF ch.name # "" THEN ch.name
                       ELSE PyStr(FirstTruthy(ch.raw, <<"name", "avatarName">>)))

\* Lines 224-230: the first character whose name is the query, 0 if none.
Match(chars, args) ==
    IF \E i \in 1..Len(chars) : lower(args[1]) = lower(chars[i].name)
    THEN CHOOSE i \in 1..Len(chars) :
            /\ lower(args[1]) = lower(chars[i].name)
            /\ \A j \in 1..(i - 1) : lower(args[1]) # lower(chars[j].name)
    ELSE 0

\* Lines 209-239: the replies after a truthy payload.
RepliesForChars(game, uid, args, chars) ==
    IF chars = <<>> THEN <<HdReply("troubleshoot", "")>>
    ELSE IF args # <<>> /\ Match(chars, args) # 0 THEN <<Details(chars[Match(chars, args)])>>
    ELSE IF args # <<>> THEN <<HdReply("no match", ""), Keyboard(game, uid, chars)>>
    ELSE <<Keyboard(game, uid, chars)>>

\* `if not data:` (line 203, and line 302 of the callback).
FetchFailed(data) == ~JTruthy(data)

HdInit ==
    /\ hd_update \in HdUpdates
    /\ hd_saved \in {None, "700000001"}
    /\ hd_env \in HdPayloads
    /\ hd_pc = "start"
    /\ hd_call = NoCall
    /\ hd_fetches = 0
    /\ hd_replies = <<>>
    /\ hd_exc = "None"

HdIdle ==
    /\ hd_update = [kind |-> "cb", game |-> "", args |-> <<>>, data |-> NoData]
    /\ hd_saved = None
    /\ hd_env = JNull
    /\ hd_pc = "done"
    /\ hd_call = NoCall
    /\ hd_fetches = 0
    /\ hd_replies = <<>>
    /\ hd_exc = "None"

\* cmd_game_generic up to the fetch (lines 180-202).
HdCmdStart ==
    /\ hd_pc = "start"
    /\ hd_update.kind = "cmd"
    /\ IF ~Truthy(hd_saved) /\ hd_update.args # <<>> /\ isdigit(hd_update.args[1])
       THEN /\ hd_saved' = hd_update.args[1]
            /\ hd_replies' = <<HdReply("uid saved", hd_update.args[1]), HdReply("fetching", "")>>
            /\ hd_call' = [game |-> hd_update.game, uid |-> hd_update.args[1], idx |-> 0]
            /\ hd_fetches' = hd_fetches + 1
            /\ hd_pc' = "fetching"
       ELSE IF ~Truthy(hd_saved)
       THEN /\ hd_replies' = <<HdReply("no uid", "")>>
            /\ hd_pc' = "done"
            /\ UNCHANGED <<hd_saved, hd_call, hd_fetches>>
       ELSE /\ hd_replies' = <<HdReply("fetching", "")>>
            /\ hd_call' = [game |-> hd_update.game, uid |-> hd_saved, idx |-> 0]
            /\ hd_fetches' = hd_fetches + 1
            /\ hd_pc' = "fetching"
            /\ UNCHANGED <<hd_saved>>
    /\ UNCHANGED <<hd_update, hd_env, hd_exc>>
    /\ UNCHANGED <<tcVars, rsVars, ftVars, snVars, stVars>>

\* cmd_game_generic after the fetch (lines 203-239).
HdCmdAfterFetch ==
    /\ hd_pc = "fetching"
    /\ hd_update.kind = "cmd"
    /\ hd_pc' = "done"
    /\ LET res == FetchResult(hd_call.game, hd_env)
           ex == extract_characters_from_response(res.data)
       IN  IF res.exc # "None"
           THEN hd_exc' = res.exc /\ UNCHANGED <<hd_replies>>
           ELSE IF FetchFailed(res.data)
           THEN /\ hd_replies' = Append(hd_replies, HdReply("fetch failed", ""))
                /\ UNCHANGED <<hd_exc>>
           ELSE IF ex.exc # "None"
           THEN hd_exc' = ex.exc /\ UNCHANGED <<hd_replies>>
           ELSE /\ hd_replies' = hd_replies \o
                        RepliesForChars(hd_call.game, hd_call.uid, hd_update.args, ex.out)
                /\ UNCHANGED <<hd_exc>>
    /\ UNCHANGED <<hd_update, hd_saved, hd_env, hd_call, hd_fetches>>
    /\ UNCHANGED <<tcVars, rsVars, ftVars, snVars, stVars>>

\* callback_handler up to the fetch (lines 287-301).
HdCbStart ==
    /\ hd_pc = "start"
    /\ hd_update.kind = "cb"
    /\ IF hd_update.data = NoData
       THEN /\ hd_pc' = "done"
            /\ UNCHANGED <<hd_replies, hd_call, hd_fetches>>
       ELSE IF ~StartsWithEnk(hd_update.data)
       THEN /\ hd_replies' = <<HdReply("answer", "")>>
            /\ hd_pc' = "done"
            /\ UNCHANGED <<hd_call, hd_fetches>>
       ELSE IF ~Parses(hd_update.data)
       THEN /\ hd_replies' = <<HdReply("answer", "data error")>>
            /\ hd_pc' = "done"
            /\ UNCHANGED <<hd_call, hd_fetches>>
       ELSE /\ hd_call' = [game |-> hd_update.data[2], uid |-> hd_update.data[3],
                           idx |-> ParseInt(hd_update.data[4])]
            /\ hd_fetches' = hd_fetches + 1
            /\ hd_pc' = "fetching"
            /\ UNCHANGED <<hd_replies>>
    /\ UNCHANGED <<hd_update, hd_saved, hd_env, hd_exc>>
    /\ UNCHANGED <<tcVars, rsVars, ftVars, snVars, stVars>>

\* callback_handler after the fetch (lines 301-311).
HdCbAfterFetch ==
    /\ hd_pc = "fetching"
    /\ hd_update.kind = "cb"
    /\ hd_pc' = "done"
    /\ LET res == FetchResult(hd_call.game, hd_env)
           ex == extract_characters_from_response(res.data)
       IN  IF res.exc # "None"
           THEN hd_exc' = res.exc /\ UNCHANGED <<hd_replies>>
           ELSE IF FetchFailed(res.data)
           THEN /\ hd_replies' = Append(hd_replies, HdReply("answer", "fetch failed"))
                /\ UNCHANGED <<hd_exc>>
           ELSE IF ex.exc # "None"
           THEN hd_exc' = ex.exc /\ UNCHANGED <<hd_replies>>
           ELSE IF hd_call.idx < 0 \/ hd_call.idx >= Len(ex.out)
           THEN /\ hd_replies' = Append(hd_replies, HdReply("answer", "invalid choice"))
                /\ UNCHANGED <<hd_exc>>
           ELSE /\ hd_replies' = hd_replies \o
                        <<HdReply("answer", ""), Details(ex.out[hd_call.idx + 1])>>
                /\ UNCHANGED <<hd_exc>>
    /\ UNCHANGED <<hd_update, hd_saved, hd_env, hd_call, hd_fetches>>
    /\ UNCHANGED <<tcVars, rsVars, ftVars, snVars, stVars>>

(***************************************************************************)
(* The specifications.                                                     *)
(***************************************************************************)
InitInvoke == TcInit /\ RsIdle /\ FtIdle /\ SnIdle /\ StIdle /\ HdIdle
NextInvoke == TcSkip \/ TcCallWithArgs \/ TcRetryNoArgs \/ TcFinish
SpecInvoke == InitInvoke /\ [][NextInvoke]_vars

InitResolve == RsInit /\ TcIdle /\ FtIdle /\ SnIdle /\ StIdle /\ HdIdle
NextResolve == RsBuildCookies \/ RsConstruct
SpecResolve == InitResolve /\ [][NextResolve]_vars

InitFetch == FtInit /\ TcIdle /\ RsIdle /\ SnIdle /\ StIdle /\ HdIdle
NextFetch == FtBuildUrl \/ FtGet \/ FtSleep \/ FtFallThrough
SpecFetch == InitFetch /\ [][NextFetch]_vars

InitSniff == SnInit /\ TcIdle /\ RsIdle /\ FtIdle /\ StIdle /\ HdIdle
NextSniff == SnExtract
SpecSniff == InitSniff /\ [][NextSniff]_vars

InitStore == StInit /\ TcIdle /\ RsIdle /\ FtIdle /\ SnIdle /\ HdIdle
NextStore == StLink \/ StLinkCookie \/ StUnlink \/ StReply
SpecStore == InitStore /\ [][NextStore]_vars

InitHandle == HdInit /\ TcIdle /\ RsIdle /\ FtIdle /\ SnIdle /\ StIdle
NextHandle == HdCmdStart \/ HdCmdAfterFetch \/ HdCbStart \/ HdCbAfterFetch
SpecHandle == InitHandle /\ [][NextHandle]_vars

(***************************************************************************)
(* Properties of try_calls, checked under SpecInvoke.                      *)
(***************************************************************************)
HasCallable == \E i \in 1..Len(tc_names) : Callable(tc_names[i])
FirstCallable == CHOOSE i \in 1..Len(tc_names) :
    Callable(tc_names[i]) /\ \A j \in 1..(i - 1) : ~Callable(tc_names[j])
LastCallable == CHOOSE i \in 1..Len(tc_names) :
    Callable(tc_names[i]) /\ \A j \in (i + 1)..Len(tc_names) : ~Callable(tc_names[j])

\* The outcome the client gave the logged invocation c.
OutcomeOf(c) == IF c.mode = "args" THEN tc_obj[c.name].args ELSE tc_obj[c.name].noargs

\* The first callable candidate mismatches on the supplied arguments and
\* succeeds with none.
MismatchThenOk ==
    /\ HasCallable
    /\ tc_obj[tc_names[FirstCallable]].args = "TypeError"
    /\ tc_obj[tc_names[FirstCallable]].noargs = "ok"

\* C1: when the first callable candidate raises TypeError with the supplied
\* arguments and succeeds with none, try_calls returns the result of that
\* no-argument call, and no invocation is ever made of any other candidate.
C1_NoArgRetryWins ==
    MismatchThenOk =>
        /\ Len(tc_calls) <= 2
        /\ \A k \in 1..Len(tc_calls) : tc_calls[k].i = FirstCallable
        /\ tc_pc = "done" =>
              /\ tc_result = Return(2)
              /\ tc_calls[1].mode = "args"
              /\ tc_calls[2].mode = "noargs"

\* The case of C1 with a callable candidate waiting behind the first one.
C1_Witness ==
    /\ MismatchThenOk
    /\ tc_pc = "done"
    /\ tc_result = Return(2)
    /\ \E j \in (FirstCallable + 1)..Len(tc_names) :
          Callable(tc_names[j]) /\ tc_names[j] # tc_names[FirstCallable]

\* Every invocation try_calls can make of a callable candidate fails.
EveryCandidateFails ==
    /\ HasCallable
    /\ \A i \in 1..Len(tc_names) :
          Callable(tc_names[i]) =>
              /\ tc_obj[tc_names[i]].args # "ok"
              /\ tc_obj[tc_names[i]].args = "TypeError" => tc_obj[tc_names[i]].noargs # "ok"

\* C2: when every callable candidate fails, try_calls raises, and the error
\* raised is the one of the last invocation made (the no-argument retry
\* counts as an invocation), which is an invocation of the last callable
\* candidate.
C2_LastErrorRaised ==
    (EveryCandidateFails /\ tc_pc = "done") =>
        /\ Len(tc_calls) >= 1
        /\ tc_result.t = "raise"
        /\ tc_result.exc.call = Len(tc_calls)
        /\ tc_result.exc.kind = OutcomeOf(tc_calls[Len(tc_calls)])
        /\ tc_calls[Len(tc_calls)].i = LastCallable

\* All fail, several errors were seen, and the last one came from a
\* no-argument retry.
C2_Witness ==
    /\ EveryCandidateFails
    /\ tc_pc = "done"
    /\ Len(tc_calls) >= 3
    /\ tc_calls[Len(tc_calls)].mode = "noargs"
    /\ tc_result.t = "raise"
    /\ tc_result.exc.kind = "Error"

NoneCallable == \A i \in 1..Len(tc_names) : ~Callable(tc_names[i])

\* C3: when no candidate name (the empty sequence included) is a callable
\* member, try_calls invokes nothing and ends by raising the RuntimeError
\* "No function found among", never by returning.
C3_NoCandidateFound ==
    NoneCallable =>
        /\ tc_calls = <<>>
        /\ tc_pc = "done" => tc_result = Raise(NoFunctionFound)

\* Several names, none callable, and the function has ended.
C3_Witness ==
    /\ NoneCallable
    /\ Len(tc_names) >= 2
    /\ tc_pc = "done"
    /\ tc_result = Raise(NoFunctionFound)

(***************************************************************************)
(* Properties of fetch_enka_data_sync, checked under SpecFetch.            *)
(***************************************************************************)
\* A failed attempt: a transport error, a non-200 status, a body not JSON.
Fails == {"exc", "status", "badjson"}

\* C4: against an endpoint whose first two attempts fail and whose third
\* succeeds the fetch returns the third attempt's payload; against one that
\* always fails it makes exactly `retries` GETs and returns None.
C4_RetriesToCeiling ==
    (ft_pc = "done" /\ Supported(ft_game)) =>
        /\ (/\ ft_retries >= 3
            /\ ft_endpoint[1] \in Fails
            /\ ft_endpoint[2] \in Fails
            /\ ft_endpoint[3] = "ok") => ft_result = FtPayload(3)
        /\ (\A n \in 1..ft_retries : ft_endpoint[n] \in Fails) =>
              (ft_gets = ft_retries /\ ft_result = FtNone)

\* C5: an attempt that ends with a non-200 status below the retry ceiling is
\* followed by a wait and another GET: the fetch never ends on it.
C5_StatusIsRetried ==
    ~(/\ ft_pc = "done"
      /\ ft_gets >= 1
      /\ ft_gets < ft_retries
      /\ ft_endpoint[ft_gets] = "status")

\* C6: the fetch raises only for a game key the endpoint table lacks, and
\* then before any GET; with a supported key every sequence of failed
\* attempts ends in None, and every run in a payload or None.
C6_RaisesOnlyForUnsupportedKey ==
    /\ ft_result.t = "raise" => (~Supported(ft_game) /\ ft_gets = 0)
    /\ ~Supported(ft_game) =>
          /\ ft_gets = 0
          /\ ft_pc = "done" => ft_result = FtRaise
    /\ (Supported(ft_game) /\ ft_pc = "done") =>
          /\ ft_result.t \in {"payload", "None"}
          /\ (\A n \in 1..ft_gets : ft_endpoint[n] \in Fails) => ft_result = FtNone

\* A supported key, every attempt up to the ceiling a transport error.
C6_Witness ==
    /\ Supported(ft_game)
    /\ ft_pc = "done"
    /\ ft_retries >= 2
    /\ ft_gets = ft_retries
    /\ \A n \in 1..ft_gets : ft_endpoint[n] = "exc"
    /\ ft_result = FtNone

(***************************************************************************)
(* Properties of make_genshin_client, checked under SpecResolve.           *)
(***************************************************************************)
Set(v) == v # None /\ v # ""
HasPair(creds) == Set(creds.ltuid) /\ Set(creds.ltoken)
HasCookieToken(creds) == Set(creds.cookie_token)

\* C7: a record with a recognized credential shape (ltuid and ltoken both
\* non-empty, or a non-empty cookie_token) gets a non-empty payload made of
\* its own non-empty fields; a record with none (one half of the pair, or
\* only a uid) ends in the no-credentials ValueError with no constructor
\* call made.
C7_PayloadOrNoCredentials ==
    rs_pc # "start" =>
        IF HasPair(rs_creds) \/ HasCookieToken(rs_creds)
        THEN /\ rs_cookies # NoCookies
             /\ \A kv \in rs_cookies : Set(kv[2]) /\ rs_creds[kv[1]] = kv[2]
             /\ rs_result # RsRaise("NoCredentials")
        ELSE /\ rs_pc = "done"
             /\ rs_result = RsRaise("NoCredentials")
             /\ rs_cookies = NoCookies
             /\ rs_ctor = <<>>

\* One half of the pair and a uid, nothing else.
C7_Witness ==
    /\ rs_pc = "done"
    /\ Set(rs_creds.ltuid)
    /\ ~Set(rs_creds.ltoken)
    /\ ~Set(rs_creds.cookie_token)
    /\ Set(rs_creds.uid)
    /\ rs_result = RsRaise("NoCredentials")

\* C8: a record holding both the ltuid/ltoken pair and a cookie_token gets a
\* payload that holds all three fields.
C8_EveryShapeInPayload ==
    (rs_pc # "start" /\ HasPair(rs_creds) /\ HasCookieToken(rs_creds)) =>
        {<<"ltuid", rs_creds.ltuid>>, <<"ltoken", rs_creds.ltoken>>,
         <<"cookie_token", rs_creds.cookie_token>>} \subseteq rs_cookies

(***************************************************************************)
(* Properties of extract_characters_from_response, checked under SpecSniff.*)
(***************************************************************************)
Raws(out) == [i \in 1..Len(out) |-> out[i].raw]

\* The mapping elements of the list under top-level key k (none when the
\* key is absent or holds no list).
DictEls(data, k) ==
    IF IsList(Get(data, k)) THEN SelectSeq(Get(data, k).els, IsDict) ELSE <<>>

\* The first generic key, in the fixed order, whose list has a mapping.
FirstGeneric(data) == CHOOSE i \in 1..Len(GenericKeys) :
    /\ DictEls(data, GenericKeys[i]) # <<>>
    /\ \A j \in 1..(i - 1) : DictEls(data, GenericKeys[j]) = <<>>

\* C9: the three steps answer in strict priority order: avatarInfoList when
\* it holds a mapping; else the first generic key (avatars, characters, data,
\* playerInfo, player) whose list holds a mapping; else the recursive
\* search; a later step never answers when an earlier one has a record.
C9_StrictPriority ==
    (sn_pc = "done" /\ IsDict(sn_data)) =>
        IF DictEls(sn_data, "avatarInfoList") # <<>>
        THEN sn_step = 1 /\ Raws(sn_out) = DictEls(sn_data, "avatarInfoList")
        ELSE IF \E i \in 1..Len(GenericKeys) : DictEls(sn_data, GenericKeys[i]) # <<>>
        THEN /\ sn_step = 2
             /\ Raws(sn_out) = DictEls(sn_data, GenericKeys[FirstGeneric(sn_data)])
        ELSE /\ sn_step \in {0, 3}
             /\ sn_step = 0 <=> sn_out = <<>>
             /\ \A i \in 1..Len(sn_out) : HasMarker(sn_out[i].raw)

\* No avatarInfoList, a 'characters' list of mappings, and a marker-bearing
\* list under another key that only step 3 would find: step 2 answers.
C9_Witness ==
    /\ sn_pc = "done"
    /\ IsDict(sn_data)
    /\ ~HasKey(sn_data, "avatarInfoList")
    /\ Get(sn_data, "characters") = JList(<<Raiden>>)
    /\ Get(sn_data, "showcase") = JList(<<Bennett>>)
    /\ sn_step = 2
    /\ sn_out = <<[name |-> "Raiden", raw |-> Raiden]>>

\* The first sequence, depth-first through the mappings' values, that has a
\* mapping element with a marker key: the whole sequence.
RECURSIVE FirstMarkedList(_)
RECURSIVE FirstMarkedIn(_, _)
FirstMarkedList(d) ==
    IF IsList(d)
    THEN IF \E i \in 1..Len(d.els) : IsDict(d.els[i]) /\ HasMarker(d.els[i])
         THEN d.els ELSE <<>>
    ELSE IF IsDict(d) THEN FirstMarkedIn(d.kv, 1)
    ELSE <<>>
FirstMarkedIn(kv, i) ==
    IF i > Len(kv) THEN <<>>
    ELSE IF FirstMarkedList(kv[i][2]) # <<>> THEN FirstMarkedList(kv[i][2])
    ELSE FirstMarkedIn(kv, i + 1)

\* C10: when the recursive search answers, the whole sequence it found is
\* the character list: every element of the sequence is in the output, so
\* the output is as long as the sequence.
C10_WholeSequenceReturned ==
    (sn_pc = "done" /\ sn_step = 3) =>
        /\ Len(sn_out) = Len(FirstMarkedList(sn_data))
        /\ Raws(sn_out) = FirstMarkedList(sn_data)

\* C11: step 2 (the generic top-level keys) gives each element the display
\* name step 1 would give it: the first non-empty of name, avatarName, icon,
\* id, else 'Unknown'.
C11_Step2NamesAsStep1 ==
    (sn_pc = "done" /\ sn_step = 2) =>
        \A i \in 1..Len(sn_out) :
            sn_out[i].name = PyStr(FirstTruthy(sn_out[i].raw, NameKeys1))

\* Every value nested in a payload, the payload included.
RECURSIVE Subtrees(_)
Subtrees(v) ==
    {v} \cup
    IF IsList(v) THEN UNION {Subtrees(v.els[i]) : i \in 1..Len(v.els)}
    ELSE IF IsDict(v) THEN UNION {Subtrees(v.kv[i][2]) : i \in 1..Len(v.kv)}
    ELSE {}

\* C13: the function never fails: for every payload, a non-mapping top
\* level and a payload without known keys included, it returns a sequence,
\* possibly empty, of records with a string display name and a raw subtree
\* of the payload.
C13_NeverFails ==
    sn_pc = "done" =>
        /\ sn_exc = "None"
        /\ \A i \in 1..Len(sn_out) :
            /\ DOMAIN sn_out[i] = {"name", "raw"}
            /\ sn_out[i].name \in STRING
            /\ sn_out[i].raw \in Subtrees(sn_data)

\* A nested sequence with a scalar beside a marker-bearing mapping, under no
\* known key: the call returns the one record.
C13_Witness ==
    /\ sn_pc = "done"
    /\ sn_data = JDict(<< <<"showcase", JList(<<JNum(7), Raiden>>)>> >>)
    /\ sn_exc = "None"
    /\ sn_out = <<[name |-> "Raiden", raw |-> Raiden]>>

\* The sequence of the payload that the answering step read.
SourceSeq(data, step) ==
    CASE step = 1 -> Get(data, "avatarInfoList").els
      [] step = 2 -> Get(data, GenericKeys[FirstGeneric(data)]).els
      [] step = 3 -> FirstMarkedList(data)
      [] OTHER -> <<>>

\* s is t with some elements left out, the others in t's order.
RECURSIVE IsSubseq(_, _)
IsSubseq(s, t) ==
    IF s = <<>> THEN TRUE
    ELSE IF t = <<>> THEN FALSE
    ELSE IF Head(s) = Head(t) THEN IsSubseq(Tail(s), Tail(t))
    ELSE IsSubseq(s, Tail(t))

\* C17: the output keeps upstream order: its raw elements are a subsequence
\* of the source sequence, in the same relative order, nothing sorted and
\* nothing duplicated.
C17_UpstreamOrder ==
    (sn_pc = "done" /\ sn_exc = "None") =>
        IsSubseq(Raws(sn_out), SourceSeq(sn_data, sn_step))

\* Two different records returned, in the order of the source sequence.
C17_Witness ==
    /\ sn_pc = "done"
    /\ sn_step = 1
    /\ Get(sn_data, "avatarInfoList") = JList(<<Raiden, Kaeya>>)
    /\ Raws(sn_out) = <<Raiden, Kaeya>>

\* Steps 1 and 2 find nothing in the payload.
Steps12FindNothing(data) ==
    /\ IsDict(data)
    /\ DictEls(data, "avatarInfoList") = <<>>
    /\ \A i \in 1..Len(GenericKeys) : DictEls(data, GenericKeys[i]) = <<>>

\* C18: when steps 1 and 2 find nothing and a sequence nested in mappings
\* has a mapping with a marker key, the recursive search answers with the
\* records of that sequence; a record with no name, avatarName or icon (id
\* its only marker) is named 'Unknown'.
C18_RecursiveSearchAnswers ==
    (sn_pc = "done" /\ Steps12FindNothing(sn_data) /\ FirstMarkedList(sn_data) # <<>>) =>
        /\ sn_step = 3
        /\ sn_out # <<>>
        /\ IsSubseq(Raws(sn_out), FirstMarkedList(sn_data))
        /\ \A i \in 1..Len(sn_out) :
            (\A k \in {"name", "avatarName", "icon"} : ~JTruthy(Get(sn_out[i].raw, k)))
                => sn_out[i].name = "Unknown"

\* Scenario C: {"player": {"showcase": [{"id": 10000002}]}}.
C18_Witness ==
    /\ sn_pc = "done"
    /\ sn_data = JDict(<< <<"player", JDict(<< <<"showcase", JList(<<IdOnly>>)>> >>)>> >>)
    /\ sn_step = 3
    /\ sn_out = <<[name |-> "Unknown", raw |-> IdOnly]>>

\* Candidate i ends try_calls with a return: it succeeds on the supplied
\* arguments, or mismatches on them and succeeds with none.
Wins(i) ==
    /\ Callable(tc_names[i])
    /\ \/ tc_obj[tc_names[i]].args = "ok"
       \/ tc_obj[tc_names[i]].args = "TypeError" /\ tc_obj[tc_names[i]].noargs = "ok"
FirstWinner == CHOOSE j \in 1..Len(tc_names) :
    Wins(j) /\ \A k \in 1..(j - 1) : ~Wins(k)

\* A candidate fails with an error that is no TypeError, and a later
\* candidate succeeds.
ErrorThenSuccess ==
    /\ \E j \in 1..Len(tc_names) : Wins(j)
    /\ \E i \in 1..(FirstWinner - 1) :
          Callable(tc_names[i]) /\ tc_obj[tc_names[i]].args = "Error"

\* C20: a candidate's failure that is no TypeError does not end the pass:
\* the error is recorded, the next candidate is tried, and when a later
\* candidate succeeds try_calls returns that success; the earlier error is
\* never raised.
C20_ErrorDoesNotAbort ==
    ErrorThenSuccess =>
        /\ tc_result.t # "raise"
        /\ tc_pc = "done" =>
              /\ tc_result = Return(Len(tc_calls))
              /\ tc_calls[Len(tc_calls)].i = FirstWinner
              /\ \A i \in 1..FirstWinner :
                    Callable(tc_names[i]) => \E k \in 1..Len(tc_calls) : tc_calls[k].i = i

\* The first invocation failed with an Error, it was recorded, and the
\* call still returned the success of a later candidate.
C20_Witness ==
    /\ ErrorThenSuccess
    /\ tc_pc = "done"
    /\ OutcomeOf(tc_calls[1]) = "Error"
    /\ tc_last_exc.kind = "Error"
    /\ tc_result.t = "return"
    /\ tc_calls[tc_result.call].i > tc_calls[1].i

\* The last command user u issued has its effect in the store.
LastEffectHolds(u) ==
    LET c == st_hist[u][Len(st_hist[u])]
    IN  CASE c.cmd = "link" /\ Len(c.args) = 2 ->
                /\ u \in DOMAIN st_file
                /\ {"ltuid", "ltoken"} \subseteq DOMAIN st_file[u]
                /\ st_file[u]["ltuid"] = c.args[1]
                /\ st_file[u]["ltoken"] = c.args[2]
          [] c.cmd = "link_cookie" /\ Len(c.args) = 1 ->
                /\ u \in DOMAIN st_file
                /\ "cookie_token" \in DOMAIN st_file[u]
                /\ st_file[u]["cookie_token"] = c.args[1]
          [] c.cmd = "unlink" -> u \notin DOMAIN st_file
          [] OTHER -> TRUE

\* C15: link and unlink commands of two different users that run
\* concurrently never lose each other's update: the store holds the effect
\* of both users' commands, whatever the interleaving of their handlers.
C15_NoLostUpdate ==
    \A u \in Users, v \in Users :
        (u # v /\ st_hist[u] # <<>> /\ st_hist[v] # <<>>) =>
            LastEffectHolds(u) /\ LastEffectHolds(v)

\* The link handlers of both users are in flight at once, each awaiting its
\* reply, and the store holds both records.
C15_Witness ==
    /\ st_task["u1"] = "saved"
    /\ st_task["u2"] = "saved"
    /\ Len(st_hist["u1"]) = 1
    /\ st_hist["u1"][1].cmd = "link"
    /\ st_hist["u2"][Len(st_hist["u2"])].cmd = "link"
    /\ DOMAIN st_file = {"u1", "u2"}
    /\ LastEffectHolds("u1")
    /\ LastEffectHolds("u2")

Fields == {"ltuid", "ltoken", "cookie_token"}

\* The commands of history h after its most recent unlink.
LastUnlink(h) ==
    IF \E i \in 1..Len(h) : h[i].cmd = "unlink"
    THEN CHOOSE i \in 1..Len(h) :
            h[i].cmd = "unlink" /\ \A j \in (i + 1)..Len(h) : h[j].cmd # "unlink"
    ELSE 0
SinceUnlink(h) == SubSeq(h, LastUnlink(h) + 1, Len(h))

\* A well-formed link or link_cookie, and the fields it sets.
WellFormed(c) ==
    \/ c.cmd = "link" /\ Len(c.args) = 2
    \/ c.cmd = "link_cookie" /\ Len(c.args) = 1
SetsField(c, f) ==
    \/ c.cmd = "link" /\ Len(c.args) = 2 /\ f \in {"ltuid", "ltoken"}
    \/ c.cmd = "link_cookie" /\ Len(c.args) = 1 /\ f = "cookie_token"
ValueGiven(c, f) == IF f = "ltoken" THEN c.args[2] ELSE c.args[1]
LastSetting(h, f) == CHOOSE i \in 1..Len(h) :
    SetsField(h[i], f) /\ \A j \in (i + 1)..Len(h) : ~SetsField(h[j], f)

\* The i-th command of history h changed the store: a well-formed link, or
\* an unlink of a user linked since the unlink before.
Mutates(h, i) ==
    \/ WellFormed(h[i])
    \/ /\ h[i].cmd = "unlink"
       /\ \E j \in 1..(i - 1) :
            WellFormed(h[j]) /\ \A k \in (j + 1)..(i - 1) : h[k].cmd # "unlink"

\* C16: after any sequence of link, link_cookie and unlink, a user's record
\* exists iff the user issued a well-formed link or link_cookie after the
\* most recent unlink; each stored field holds the value of the most recent
\* link that set it since that unlink; no field survives an unlink; and the
\* store has been written once for every mutation.
C16_StoreFollowsCommands ==
    /\ DOMAIN st_file \subseteq Users
    /\ \A u \in Users :
        LET h == SinceUnlink(st_hist[u])
        IN  /\ u \in DOMAIN st_file <=> \E i \in 1..Len(h) : WellFormed(h[i])
            /\ u \in DOMAIN st_file =>
                 /\ DOMAIN st_file[u] \subseteq Fields
                 /\ \A f \in Fields :
                      /\ f \in DOMAIN st_file[u] <=> \E i \in 1..Len(h) : SetsField(h[i], f)
                      /\ f \in DOMAIN st_file[u] =>
                           st_file[u][f] = ValueGiven(h[LastSetting(h, f)], f)
    /\ st_writes = Cardinality({p \in Users \X (1..MaxCmds) :
                                  /\ p[2] <= Len(st_hist[p[1]])
                                  /\ Mutates(st_hist[p[1]], p[2])})

\* link, unlink, link_cookie of one user: the record holds the cookie_token
\* alone, and the store was written three times.
C16_Witness ==
    /\ Len(st_hist["u1"]) = 3
    /\ st_hist["u1"][1] = [cmd |-> "link", args |-> <<"a", "b">>]
    /\ st_hist["u1"][2].cmd = "unlink"
    /\ st_hist["u1"][3] = [cmd |-> "link_cookie", args |-> <<"b">>]
    /\ st_file = ("u1" :> ("cookie_token" :> "b"))
    /\ st_writes = 3

\* The game command made its fetch and has ended.
CmdFetched == hd_pc = "done" /\ hd_update.kind = "cmd" /\ hd_fetches = 1 /\ hd_exc = "None"

\* C12: when the fetch succeeds with a payload from which no character is
\* extracted (the payload {} in particular), the game command replies with
\* the troubleshooting message, not with the fetch-failure message; the
\* fetch-failure message is sent only when the fetch returned None.
C12_EmptyPayloadGetsTroubleshooting ==
    CmdFetched =>
        /\ (hd_env # JNull /\ extract_characters_from_response(hd_env).out = <<>>) =>
              hd_replies[Len(hd_replies)].kind = "troubleshoot"
        /\ hd_replies[Len(hd_replies)].kind = "fetch failed" => hd_env = JNull

\* C14: every failure raised while a chat command or a button callback is
\* handled (a game key outside the table taken from the callback data
\* included) is caught inside the handler: no exception leaves a handler.
C14_NoExceptionLeavesHandler == hd_exc = "None"

\* The invocations logged for the candidate at position i.
CallsOf(i) == {k \in 1..Len(tc_calls) : tc_calls[k].i = i}

\* C21: try_calls makes one pass over the candidates in the caller's order:
\* a candidate is invoked at most twice, with the supplied arguments and,
\* only after that call raised TypeError, with none; it is invoked only when
\* every earlier candidate is not callable or has failed; and nothing is
\* invoked after the first success.
C21_OnePassInOrder ==
    /\ \A i \in 1..Len(tc_names) :
          /\ Cardinality(CallsOf(i)) <= 2
          /\ Cardinality({k \in CallsOf(i) : tc_calls[k].mode = "args"}) <= 1
    /\ \A k \in 1..Len(tc_calls) :
          /\ tc_calls[k].i \in 1..Len(tc_names)
          /\ tc_calls[k].name = tc_names[tc_calls[k].i]
          /\ Callable(tc_calls[k].name)
          /\ tc_calls[k].mode = "noargs" =>
                /\ k > 1
                /\ tc_calls[k - 1] = [i |-> tc_calls[k].i, name |-> tc_calls[k].name,
                                      mode |-> "args"]
                /\ OutcomeOf(tc_calls[k - 1]) = "TypeError"
          /\ tc_calls[k].mode = "args" =>
                \A j \in 1..(tc_calls[k].i - 1) :
                    \/ ~Callable(tc_names[j])
                    \/ \E m \in 1..(k - 1) : tc_calls[m].i = j
          /\ k < Len(tc_calls) =>
                /\ OutcomeOf(tc_calls[k]) # "ok"
                /\ tc_calls[k].i <= tc_calls[k + 1].i

\* Three candidates, each callable: the first is invoked twice (TypeError,
\* then a failure), the second once, and the pass ends at the third.
C21_Witness ==
    /\ tc_pc = "done"
    /\ Len(tc_names) = 3
    /\ Len(tc_calls) >= 4
    /\ Cardinality(CallsOf(1)) = 2
    /\ Cardinality(CallsOf(3)) >= 1
    /\ \A k \in 1..Len(tc_calls) : k < Len(tc_calls) => OutcomeOf(tc_calls[k]) # "ok"

\* C22: the wait after failed attempt n is backoff * n; a wait occurs only
\* between two attempts, none after the final attempt and none after a
\* success; the number of GETs never exceeds the retry ceiling; with a
\* ceiling of 0 no GET is made and the result is None.
C22_WaitsBetweenAttempts ==
    /\ \A k \in 1..Len(ft_sleeps) :
          /\ ft_sleeps[k] = BackoffTenths * k
          /\ k <= ft_gets
          /\ ft_endpoint[k] # "ok"
    /\ ft_gets <= Len(ft_sleeps) + 1
    /\ (ft_pc = "done" /\ ft_gets >= 1) => Len(ft_sleeps) = ft_gets - 1
    /\ ft_result.t = "payload" => Len(ft_sleeps) = ft_result.attempt - 1
    /\ ft_gets <= ft_retries
    /\ (ft_retries = 0 /\ Supported(ft_game) /\ ft_pc = "done") =>
          (ft_gets = 0 /\ ft_result = FtNone)

\* Two transport errors, then a payload: waits of 1.5 s and 3 s, three GETs.
C22_Witness ==
    /\ ft_pc = "done"
    /\ ft_retries = 3
    /\ ft_gets = 3
    /\ ft_sleeps = <<BackoffTenths, 2 * BackoffTenths>>
    /\ ft_result = FtPayload(3)

\* The handler sent character details.
DetailsSent == \E k \in 1..Len(hd_replies) : hd_replies[k].kind = "details"

\* The list extracted from the payload the API answers with now.
FreshList == extract_characters_from_response(hd_env).out

\* C23: a button callback never resolves its index against an earlier
\* listing: the handler fetches and extracts again, shows the details of
\* the record at that position of the fresh list iff 0 <= index < its
\* length, and otherwise (no payload, index out of range, malformed data)
\* sends no details.
C23_IndexResolvedOnFreshList ==
    (hd_update.kind = "cb" /\ hd_pc = "done") =>
        /\ DetailsSent <=>
              /\ StartsWithEnk(hd_update.data)
              /\ Parses(hd_update.data)
              /\ Supported(hd_update.data[2])
              /\ 0 <= ParseInt(hd_update.data[4])
              /\ ParseInt(hd_update.data[4]) < Len(FreshList)
        /\ DetailsSent =>
              /\ hd_fetches = 1
              /\ hd_replies[Len(hd_replies)] =
                    HdReply("details", FreshList[ParseInt(hd_update.data[4]) + 1].name)
              /\ \A k \in 1..(Len(hd_replies) - 1) : hd_replies[k].kind # "details"

\* Index 1 of a button against a fresh list of one record: no details.
C23_Witness ==
    /\ hd_update.kind = "cb"
    /\ hd_pc = "done"
    /\ hd_update.data = <<"enk", "hsr", "700000001", "1">>
    /\ Len(FreshList) = 1
    /\ hd_fetches = 1
    /\ ~DetailsSent
    /\ hd_replies = <<HdReply("answer", "invalid choice")>>

\* A user's record and a field of it, in a store: whether it is there, and
\* its value.
RecordIn(file, u) == <<u \in DOMAIN file, IF u \in DOMAIN file THEN file[u] ELSE EmptyDict>>
FieldIn(file, u, f) ==
    IF u \in DOMAIN file /\ f \in DOMAIN file[u] THEN <<TRUE, file[u][f]>>
    ELSE <<FALSE, "">>

\* C24: a link command changes only the fields it sets in the issuing
\* user's record: link leaves the cookie_token as it was, link_cookie leaves
\* ltuid and ltoken as they were, both leave every other user's record as
\* it was; a malformed link and an unlink by a user without record leave
\* the whole store unchanged.
C24_FrameOfLink ==
    [][/\ st_hist' = st_hist => st_file' = st_file
       /\ \A u \in Users :
            st_hist'[u] # st_hist[u] =>
                LET c == st_hist'[u][Len(st_hist'[u])]
                IN  /\ \A v \in Users \ {u} : RecordIn(st_file', v) = RecordIn(st_file, v)
                    /\ (c.cmd = "link" /\ Len(c.args) = 2) =>
                          FieldIn(st_file', u, "cookie_token") = FieldIn(st_file, u, "cookie_token")
                    /\ (c.cmd = "link_cookie" /\ Len(c.args) = 1) =>
                          /\ FieldIn(st_file', u, "ltuid") = FieldIn(st_file, u, "ltuid")
                          /\ FieldIn(st_file', u, "ltoken") = FieldIn(st_file, u, "ltoken")
                    /\ (c.cmd # "unlink" /\ ~WellFormed(c)) =>
                          (st_file' = st_file /\ st_writes' = st_writes)
                    /\ (c.cmd = "unlink" /\ u \notin DOMAIN st_file) =>
                          (st_file' = st_file /\ st_writes' = st_writes)
      ]_vars

\* u2 linked, then u1 sent link_cookie and link: both records are whole.
C24_Witness ==
    /\ st_hist["u2"] = <<[cmd |-> "link", args |-> <<"b", "a">>]>>
    /\ st_hist["u1"] = <<[cmd |-> "link_cookie", args |-> <<"a">>],
                         [cmd |-> "link", args |-> <<"a", "b">>]>>
    /\ FieldIn(st_file, "u1", "cookie_token") = <<TRUE, "a">>
    /\ FieldIn(st_file, "u1", "ltuid") = <<TRUE, "a">>
    /\ FieldIn(st_file, "u1", "ltoken") = <<TRUE, "b">>
    /\ FieldIn(st_file, "u2", "ltuid") = <<TRUE, "b">>
    /\ FieldIn(st_file, "u2", "cookie_token") = <<FALSE, "">>

\* A sequence with a marker-bearing mapping lies inside an element of a
\* sequence of the payload.
MarkedListInsideElement(data) ==
    \E l \in Subtrees(data) :
        /\ IsList(l)
        /\ \E i \in 1..Len(l.els) : \E m \in Subtrees(l.els[i]) :
              /\ IsList(m)
              /\ \E j \in 1..Len(m.els) : IsDict(m.els[j]) /\ HasMarker(m.els[j])

\* C25: the recursive search descends only through mapping values, never
\* into the elements of a sequence: a sequence without marker-bearing
\* mapping ends its branch, a character list inside an element of another
\* sequence is never found, and the first qualifying sequence in
\* depth-first order of the mappings' values is the one returned.
C25_SearchThroughMappingsOnly ==
    (sn_pc = "done" /\ Steps12FindNothing(sn_data)) =>
        /\ sn_exc = "None"
        /\ Raws(sn_out) = SelectSeq(FirstMarkedList(sn_data),
                                    LAMBDA el : IsDict(el) /\ HasMarker(el))
        /\ \A i \in 1..Len(sn_out) :
              \E j \in 1..Len(FirstMarkedList(sn_data)) :
                  sn_out[i].raw = FirstMarkedList(sn_data)[j]

\* {"showcase": [{"equip": [{"name": "Sword"}]}]}: the marked list lies in
\* an element of the showcase list, and nothing is returned.
C25_Witness ==
    /\ sn_pc = "done"
    /\ sn_data = JDict(<< <<"showcase", JList(<<Equipped>>)>> >>)
    /\ MarkedListInsideElement(sn_data)
    /\ sn_step = 0
    /\ sn_out = <<>>

====
